---- MODULE Spec2Model ----
(***************************************************************************)
(* Model of the whip broker (src/server/main.py) and of the relay client   *)
(* (src/client/ws_client.py).                                              *)
(*                                                                         *)
(* Client: time.monotonic() is the integer variable now (one unit is one   *)
(* second; whip durations are whole seconds).  Every asyncio task runs     *)
(* from one suspension point to the next without interruption, so each     *)
(* action below is one such run.  The event loop sleeps only when it has   *)
(* nothing ready, so now advances only when no worker step is pending, and *)
(* never past a deadline the loop is waiting for.  Messages arrive at the  *)
(* instants 1..MaxTime.                                                    *)
(***************************************************************************)
EXTENDS Integers, Sequences, FiniteSets, TLC

\* ------------------------------------------------------------------ bounds

MaxTime == 3
MaxCmds == 2
MaxBurst == 3

\* ------------------------------------------------------------- client data

Sides == {"left", "right"}

\* str(side).lower() on the side strings the model sends
Lower(str) ==
  CASE str = "LEFT" -> "left"
    [] str = "Both" -> "both"
    [] OTHER -> str

SidesHitAll(side) == IF side \in {"left", "right", "both"} THEN Sides ELSE {}

\* the sides a received whip applies to: side in ("left", "both") and
\* side in ("right", "both")
SidesHit(side) ==
  (IF side \in {"left", "both"} THEN {"left"} ELSE {})
    \cup (IF side \in {"right", "both"} THEN {"right"} ELSE {})

Max0(n) == IF n > 0 THEN n ELSE 0

ExtendResetsBase(exp, t, secs) == t + Max0(secs)

ExtendNoClamp(exp, t, secs) == (IF exp > t THEN exp ELSE t) + secs

\* extend: base = expiry if expiry > now else now; expiry = base + max(0, seconds)
ExtendExpiry(exp, t, secs) == (IF exp > t THEN exp ELSE t) + Max0(secs)

\* side_worker: if exp <= now
Expired(exp, t) == exp <= t

WaitTimeoutLong(exp, t) == Max0(exp - t) + 1

\* side_worker: timeout = max(0.0, exp - now)
WaitTimeout(exp, t) == Max0(exp - t)

\* whether the coroutine touches state.expiry inside "async with state.lock":
\* extend does, side_worker has no use of state.lock
HoldsLock(coroutine) == coroutine = "extend"

VARIABLES
  now,       \* time.monotonic()
  expiry,    \* SideState.expiry, per side
  event,     \* SideState.event is set, per side
  relay,     \* Relay.state, per side
  wpc,       \* where each side_worker task is
  outcome,   \* how the worker's pending wait_for will end, per side
  deadline,  \* the time the worker's wait_for timer is set for, per side
  runPc,     \* where run() is
  log,       \* history: the whip commands that made run() call extend
  offEarly,  \* history: the worker switched the relay off before a returned deadline
  bare       \* history: state.expiry of the side was read or written without state.lock

cvars == <<now, expiry, event, relay, wpc, outcome, deadline, runPc, log, offEarly, bare>>

\* ------------------------------------------------------------- server data

NumConns == 2
NumReqs == 1

Conns == 1..NumConns
Reqs == 1..NumReqs
NoConn == 0
Tokens == {"t1", "t2"}
NoToken == "-"

\* an Authorization header is None or the list of words split() gives
NoHeader == <<"None">>
Headers ==
  {NoHeader, <<>>, <<"Bearer">>, <<"Basic", "t1">>, <<"Bearer", "t1", "x">>,
   <<"Bearer", "t1">>, <<"bearer", "t2">>, <<"BEARER", "t1">>}

\* parts[0].lower() on the schemes the model sends
LowerScheme(str) ==
  CASE str \in {"Bearer", "BEARER"} -> "bearer"
    [] str = "Basic" -> "basic"
    [] OTHER -> str

ParseAnyScheme(h) ==
  IF h # NoHeader /\ Len(h) = 2 THEN h[2] ELSE NoToken

\* get_bearer_token and the same parse in websocket_endpoint: the token, or
\* NoToken where the one raises 401 and the other closes with 1008
ParseBearer(h) ==
  IF h # NoHeader /\ Len(h) = 2 /\ LowerScheme(h[1]) = "bearer" THEN h[2] ELSE NoToken

\* WhipRequest: duration has ge=1, le=60; side is a SideEnum
MinDuration == 1
MaxDuration == 60
SideEnum == {"left", "right", "both"}
ValidPayloadFromZero(p) ==
  /\ p.duration >= 0
  /\ p.duration <= MaxDuration
  /\ p.side \in SideEnum

ValidPayload(p) ==
  /\ p.duration >= MinDuration
  /\ p.duration <= MaxDuration
  /\ p.side \in SideEnum

\* active_connections.get(token)
Lookup(reg, t) == reg[t]

RegisterKeepsFirst(reg, t, c) == IF reg[t] = NoConn THEN [reg EXCEPT ![t] = c] ELSE reg

\* active_connections[token] = websocket
RegisterMap(reg, t, c) == [reg EXCEPT ![t] = c]

UnregisterNever(reg, t, c) == reg

UnregisterAlways(reg, t, c) == [reg EXCEPT ![t] = NoConn]

\* if active_connections.get(token) is ws: active_connections.pop(token, None)
UnregisterMap(reg, t, c) == IF Lookup(reg, t) = c THEN [reg EXCEPT ![t] = NoConn] ELSE reg

VARIABLES
  registry,  \* active_connections: token -> connection, NoConn where absent
  spc,       \* where each connection's websocket_endpoint call is
  stoken,    \* the token each websocket_endpoint call parsed
  closeCode, \* the code of websocket.close(), 0 if not called
  sent,      \* the messages send_text has handed to each connection
  dpc,       \* where each POST /whip call is
  dreq,      \* its token and payload
  dws,       \* the connection it looked up
  dstatus,   \* its HTTP status, 0 while it runs
  lastOp,    \* history: the last registry write and the registry before it
  lastInput  \* history: the last handshake or POST /whip the broker received

svars == <<registry, spc, stoken, closeCode, sent, dpc, dreq, dws, dstatus, lastOp, lastInput>>

vars == <<cvars, svars>>

\* ---------------------------------------------------------- client history

\* the largest deadline extend has returned for side s so far
Promised(s) ==
  LET rets == {log[i].ret[s] : i \in {j \in 1..Len(log) : s \in SidesHit(log[j].side)}}
  IN  IF rets = {} THEN 0 ELSE CHOOSE m \in rets : \A r \in rets : r <= m

\* the entries of the log that called extend on side s, in order
ExtendsOn(s) == SelectSeq(log, LAMBDA e : s \in SidesHit(e.side))

\* ---------------------------------------------------------- client actions

InitClient ==
  /\ now = 1
  /\ expiry = [s \in Sides |-> 0]
  /\ event = [s \in Sides |-> FALSE]
  /\ relay = [s \in Sides |-> FALSE]
  /\ wpc = [s \in Sides |-> "start"]
  /\ outcome = [s \in Sides |-> "none"]
  /\ deadline = [s \in Sides |-> 0]
  /\ runPc = "connecting"
  /\ log = <<>>
  /\ offEarly = [s \in Sides |-> FALSE]
  /\ bare = [s \in Sides |-> FALSE]

WorkerLoopNoOn(s, exp) ==
  IF Expired(exp, now)
  THEN /\ relay' = [relay EXCEPT ![s] = FALSE]
       /\ offEarly' = [offEarly EXCEPT ![s] = @ \/ now < Promised(s)]
       /\ wpc' = [wpc EXCEPT ![s] = "idle"]
       /\ deadline' = [deadline EXCEPT ![s] = 0]
       /\ outcome' = [outcome EXCEPT ![s] = "none"]
       /\ bare' = [bare EXCEPT ![s] = @ \/ ~HoldsLock("side_worker")]
  ELSE /\ relay' = relay
       /\ offEarly' = offEarly
       /\ wpc' = [wpc EXCEPT ![s] = "active"]
       /\ deadline' = [deadline EXCEPT ![s] = now + WaitTimeout(exp, now)]
       /\ outcome' = [outcome EXCEPT ![s] = "none"]
       /\ bare' = [bare EXCEPT ![s] = @ \/ ~HoldsLock("side_worker")]

\* side_worker, the inner loop from its top to the next suspension, with exp
\* the value read from state.expiry: relay.off() and back to event.wait(), or
\* relay.on() and wait_for(event.wait(), timeout)
WorkerLoop(s, exp) ==
  IF Expired(exp, now)
  THEN /\ relay' = [relay EXCEPT ![s] = FALSE]
       /\ offEarly' = [offEarly EXCEPT ![s] = @ \/ now < Promised(s)]
       /\ wpc' = [wpc EXCEPT ![s] = "idle"]
       /\ deadline' = [deadline EXCEPT ![s] = 0]
       /\ outcome' = [outcome EXCEPT ![s] = "none"]
       /\ bare' = [bare EXCEPT ![s] = @ \/ ~HoldsLock("side_worker")]
  ELSE /\ relay' = [relay EXCEPT ![s] = TRUE]
       /\ offEarly' = offEarly
       /\ wpc' = [wpc EXCEPT ![s] = "active"]
       /\ deadline' = [deadline EXCEPT ![s] = now + WaitTimeout(exp, now)]
       /\ outcome' = [outcome EXCEPT ![s] = "none"]
       /\ bare' = [bare EXCEPT ![s] = @ \/ ~HoldsLock("side_worker")]

\* the task starts and blocks in event.wait()
WorkerStart(s) ==
  /\ wpc[s] = "start"
  /\ ~event[s]
  /\ wpc' = [wpc EXCEPT ![s] = "idle"]
  /\ UNCHANGED svars
  /\ UNCHANGED <<now, expiry, event, relay, outcome, deadline, runPc, log, offEarly, bare>>

\* event.wait() returns, event.clear(), then the inner loop
WorkerWake(s) ==
  /\ wpc[s] \in {"start", "idle"}
  /\ event[s]
  /\ event' = [event EXCEPT ![s] = FALSE]
  /\ WorkerLoop(s, expiry[s])
  /\ UNCHANGED svars
  /\ UNCHANGED <<now, expiry, runPc, log>>

WorkerResumeStale(s) ==
  /\ wpc[s] = "active"
  /\ outcome[s] = "event"
  /\ event' = [event EXCEPT ![s] = FALSE]
  /\ WorkerLoop(s, deadline[s])
  /\ UNCHANGED svars
  /\ UNCHANGED <<now, expiry, runPc, log>>

\* wait_for returns because the event was set: event.clear(), then the loop
\* again with the expiry of that moment
WorkerResume(s) ==
  /\ wpc[s] = "active"
  /\ outcome[s] = "event"
  /\ event' = [event EXCEPT ![s] = FALSE]
  /\ WorkerLoop(s, expiry[s])
  /\ UNCHANGED svars
  /\ UNCHANGED <<now, expiry, runPc, log>>

\* the loop runs wait_for's timer callback: the wait will end in TimeoutError.
\* From Python 3.12 on the callback cancels the worker task, so the wait ends
\* in TimeoutError also when an extend of the same loop iteration has already
\* set the event; up to 3.11 the wait then returns normally (WorkerResume).
TimerFire(s) ==
  /\ wpc[s] = "active"
  /\ outcome[s] \in {"none", "event"}
  /\ now >= deadline[s]
  /\ outcome' = [outcome EXCEPT ![s] = "timeout"]
  /\ UNCHANGED svars
  /\ UNCHANGED <<now, expiry, event, relay, wpc, deadline, runPc, log, offEarly, bare>>

\* except asyncio.TimeoutError: state.expiry = 0.0, then the loop (relay.off(),
\* break); a set event makes the outer event.wait() return at once, which
\* clears it and runs the loop once more on the same expiry
WorkerTimeout(s) ==
  /\ wpc[s] = "active"
  /\ outcome[s] = "timeout"
  /\ expiry' = [expiry EXCEPT ![s] = 0]
  /\ event' = [event EXCEPT ![s] = IF Expired(0, now) THEN FALSE ELSE @]
  /\ WorkerLoop(s, 0)
  /\ UNCHANGED svars
  /\ UNCHANGED <<now, runPc, log>>

\* a worker has a step the loop will run before it sleeps
Runnable(s) ==
  \/ wpc[s] = "start"
  \/ wpc[s] = "idle" /\ event[s]
  \/ wpc[s] = "active" /\ (outcome[s] # "none" \/ now >= deadline[s])

\* time passes while the loop sleeps: until input arrives (at one of the
\* instants) or until its next timer is due, whichever is first
Tick(instants) ==
  /\ \A s \in Sides : ~Runnable(s)
  /\ \E t \in instants \cup {deadline[s] : s \in {x \in Sides : wpc[x] = "active"}} :
       /\ t > now
       /\ \A s \in Sides : wpc[s] = "active" => t <= deadline[s]
       /\ now' = t
  /\ UNCHANGED svars
  /\ UNCHANGED <<expiry, event, relay, wpc, outcome, deadline, runPc, log, offEarly, bare>>

\* websockets.connect succeeded; the workers, created before, have started
Connect ==
  /\ runPc = "connecting"
  /\ \A s \in Sides : wpc[s] # "start"
  /\ runPc' = "recv"
  /\ UNCHANGED svars
  /\ UNCHANGED <<now, expiry, event, relay, wpc, outcome, deadline, log, offEarly, bare>>

\* run receives {"command": "whip", "duration": d, "side": rawSide}: extend on
\* each side it names; extend sets expiry and the event, and a worker blocked
\* in wait_for with its timer not yet run will return from it normally
RecvWhipUpTo(rawSide, d, maxCmds) ==
  LET hit == SidesHit(Lower(rawSide))
      newExpiry == [s \in Sides |->
                      IF s \in hit THEN ExtendExpiry(expiry[s], now, d) ELSE expiry[s]]
  IN  /\ runPc = "recv"
      /\ Len(log) < maxCmds
      /\ expiry' = newExpiry
      /\ event' = [s \in Sides |-> IF s \in hit THEN TRUE ELSE event[s]]
      /\ outcome' = [s \in Sides |->
                       IF s \in hit /\ wpc[s] = "active" /\ outcome[s] = "none"
                       THEN "event" ELSE outcome[s]]
      /\ log' = IF hit = {} THEN log
                 ELSE Append(log, [at |-> now, side |-> Lower(rawSide), secs |-> d,
                                   old |-> expiry, ret |-> newExpiry, on |-> relay])
      /\ bare' = [s \in Sides |-> bare[s] \/ (s \in hit /\ ~HoldsLock("extend"))]
      /\ UNCHANGED svars
      /\ UNCHANGED <<now, relay, wpc, deadline, runPc, offEarly>>

\* the same, for the first MaxCmds whips that name a side
RecvWhip(rawSide, d) == RecvWhipUpTo(rawSide, d, MaxCmds)

\* the same, for the first MaxBurst whips
RecvWhipBurst(rawSide, d) == RecvWhipUpTo(rawSide, d, MaxBurst)

\* the workers whose cancellation wait_for can swallow: the event was set and
\* the worker has not resumed from wait_for yet
CanSwallow == {s \in Sides : wpc[s] = "active" /\ outcome[s] = "event"}

\* run's finally: relay.off() on both sides, cancel() on both workers.  It is
\* reached from recv, from connect failing after it suspended (the workers
\* have started by then) and from connect raising at once (no worker has run
\* yet, and none ever will).  Up to Python 3.11 wait_for returns normally when
\* its inner wait has completed, dropping the CancelledError; from 3.12 on it
\* raises it.
Shutdown ==
  /\ \/ runPc = "recv"
     \/ runPc = "connecting" /\ \A s \in Sides : wpc[s] # "start"
     \/ runPc = "connecting" /\ \A s \in Sides : wpc[s] = "start"
  /\ \E kept \in {{}, CanSwallow} :
       /\ wpc' = [s \in Sides |-> IF s \in kept THEN wpc[s] ELSE "cancelled"]
       /\ outcome' = [s \in Sides |-> IF s \in kept THEN outcome[s] ELSE "none"]
       /\ deadline' = [s \in Sides |-> IF s \in kept THEN deadline[s] ELSE 0]
  /\ relay' = [s \in Sides |-> FALSE]
  /\ runPc' = "gather"
  /\ UNCHANGED svars
  /\ UNCHANGED <<now, expiry, event, log, offEarly, bare>>

\* gather(*workers) returns once every worker is done; then Relay.cleanup()
Cleanup ==
  /\ runPc = "gather"
  /\ \A s \in Sides : wpc[s] = "cancelled"
  /\ runPc' = "done"
  /\ UNCHANGED svars
  /\ UNCHANGED <<now, expiry, event, relay, wpc, outcome, deadline, log, offEarly, bare>>

WorkerStep ==
  \E s \in Sides :
    \/ WorkerStart(s)
    \/ WorkerWake(s)
    \/ WorkerResume(s)
    \/ TimerFire(s)
    \/ WorkerTimeout(s)

\* the steps of the worker of side s and of its wait_for timer
WorkerOf(s) ==
  \/ WorkerStart(s)
  \/ WorkerWake(s)
  \/ WorkerResume(s)
  \/ TimerFire(s)
  \/ WorkerTimeout(s)

Instants == 1..MaxTime
SideInputs == {"left", "right", "both", "LEFT", "Both", "up"}
Durations == {-1, 1, 2}

NextClient ==
  \/ WorkerStep
  \/ Tick(Instants)
  \/ Connect
  \/ \E rawSide \in SideInputs, d \in Durations : RecvWhip(rawSide, d)
  \/ Shutdown
  \/ Cleanup

\* the same client with the durations the scheduling examples use, and
\* messages arriving 0, 3, 8, 10 or 100 seconds after the start
ScheduleCmds == {<<"right", 5>>, <<"right", 10>>, <<"both", 10>>, <<"both", -1>>}
ScheduleInstants == {1, 4, 9, 11, 101}

NextSchedule ==
  \/ WorkerStep
  \/ Tick(ScheduleInstants)
  \/ Connect
  \/ \E cmd \in ScheduleCmds : RecvWhip(cmd[1], cmd[2])
  \/ Shutdown
  \/ Cleanup

\* the same client receiving bursts of up to MaxBurst whips of 1 or 2 seconds
BurstSides == {"left", "right"}
BurstDurations == {1, 2}

NextBurst ==
  \/ WorkerStep
  \/ Tick(Instants)
  \/ Connect
  \/ \E rawSide \in BurstSides, d \in BurstDurations : RecvWhipBurst(rawSide, d)
  \/ Shutdown
  \/ Cleanup

\* ---------------------------------------------------------- server actions

NoReq == [token |-> NoToken, duration |-> 0, side |-> "-"]
NoOp == [op |-> "none", token |-> NoToken, conn |-> NoConn, by |-> "-",
         before |-> [t \in Tokens |-> NoConn]]
NoPayload == [duration |-> 0, side |-> "-"]
NoInput == [kind |-> "none", id |-> 0, header |-> NoHeader, payload |-> NoPayload]

InitServer ==
  /\ registry = [t \in Tokens |-> NoConn]
  /\ spc = [c \in Conns |-> "new"]
  /\ stoken = [c \in Conns |-> NoToken]
  /\ closeCode = [c \in Conns |-> 0]
  /\ sent = [c \in Conns |-> <<>>]
  /\ dpc = [r \in Reqs |-> "new"]
  /\ dreq = [r \in Reqs |-> NoReq]
  /\ dws = [r \in Reqs |-> NoConn]
  /\ dstatus = [r \in Reqs |-> 0]
  /\ lastOp = NoOp
  /\ lastInput = NoInput

\* websocket_endpoint up to accept(): without a token close(code=1008) and
\* return; connections are numbered in the order they arrive
SessionHandshake(c, h) ==
  /\ spc[c] = "new"
  /\ \A b \in Conns : b < c => spc[b] # "new"
  /\ IF ParseBearer(h) = NoToken
     THEN /\ spc' = [spc EXCEPT ![c] = "rejected"]
          /\ closeCode' = [closeCode EXCEPT ![c] = 1008]
          /\ stoken' = stoken
     ELSE /\ spc' = [spc EXCEPT ![c] = "accepting"]
          /\ stoken' = [stoken EXCEPT ![c] = ParseBearer(h)]
          /\ closeCode' = closeCode
  /\ lastInput' = [kind |-> "ws", id |-> c, header |-> h, payload |-> NoPayload]
  /\ UNCHANGED cvars
  /\ UNCHANGED <<registry, sent, dpc, dreq, dws, dstatus, lastOp>>

\* accept() raises (the peer is gone): the call ends before its try block
SessionAcceptFail(c) ==
  /\ spc[c] = "accepting"
  /\ spc' = [spc EXCEPT ![c] = "closed"]
  /\ UNCHANGED cvars
  /\ UNCHANGED <<registry, stoken, closeCode, sent, dpc, dreq, dws, dstatus, lastOp, lastInput>>

SessionRegisterClosesOld(c) ==
  /\ spc[c] = "accepting"
  /\ registry' = RegisterMap(registry, stoken[c], c)
  /\ lastOp' = [op |-> "register", token |-> stoken[c], conn |-> c, by |-> "session",
                before |-> registry]
  /\ spc' = [b \in Conns |->
               IF b = c THEN "open"
               ELSE IF b = Lookup(registry, stoken[c]) THEN "closed" ELSE spc[b]]
  /\ closeCode' = [b \in Conns |->
                     IF b # c /\ b = Lookup(registry, stoken[c]) THEN 1000 ELSE closeCode[b]]
  /\ UNCHANGED cvars
  /\ UNCHANGED <<stoken, sent, dpc, dreq, dws, dstatus, lastInput>>

\* accept() returned: active_connections[token] = websocket, then receive_text()
SessionRegister(c) ==
  /\ spc[c] = "accepting"
  /\ registry' = RegisterMap(registry, stoken[c], c)
  /\ lastOp' = [op |-> "register", token |-> stoken[c], conn |-> c, by |-> "session",
                before |-> registry]
  /\ spc' = [spc EXCEPT ![c] = "open"]
  /\ UNCHANGED cvars
  /\ UNCHANGED <<stoken, closeCode, sent, dpc, dreq, dws, dstatus, lastInput>>

\* receive_text() raises (disconnect, error, cancellation): the finally block
SessionExit(c) ==
  /\ spc[c] = "open"
  /\ registry' = UnregisterMap(registry, stoken[c], c)
  /\ lastOp' = [op |-> "unregister", token |-> stoken[c], conn |-> c, by |-> "session",
                before |-> registry]
  /\ spc' = [spc EXCEPT ![c] = "closed"]
  /\ UNCHANGED cvars
  /\ UNCHANGED <<stoken, closeCode, sent, dpc, dreq, dws, dstatus, lastInput>>

\* POST /whip up to send_text: 401 from get_bearer_token, 422 from the
\* WhipRequest validation, 404 when the lookup finds nothing; requests are
\* numbered in the order they arrive
DispatchStart(r, h, p) ==
  /\ dpc[r] = "new"
  /\ \A q \in Reqs : q < r => dpc[q] # "new"
  /\ IF ParseBearer(h) = NoToken
     THEN /\ dpc' = [dpc EXCEPT ![r] = "done"]
          /\ dstatus' = [dstatus EXCEPT ![r] = 401]
          /\ UNCHANGED <<dreq, dws>>
     ELSE IF ~ValidPayload(p)
     THEN /\ dpc' = [dpc EXCEPT ![r] = "done"]
          /\ dstatus' = [dstatus EXCEPT ![r] = 422]
          /\ UNCHANGED <<dreq, dws>>
     ELSE IF Lookup(registry, ParseBearer(h)) = NoConn
     THEN /\ dpc' = [dpc EXCEPT ![r] = "done"]
          /\ dstatus' = [dstatus EXCEPT ![r] = 404]
          /\ UNCHANGED <<dreq, dws>>
     ELSE /\ dpc' = [dpc EXCEPT ![r] = "sending"]
          /\ dreq' = [dreq EXCEPT ![r] = [token |-> ParseBearer(h),
                                          duration |-> p.duration, side |-> p.side]]
          /\ dws' = [dws EXCEPT ![r] = Lookup(registry, ParseBearer(h))]
          /\ dstatus' = dstatus
  /\ lastInput' = [kind |-> "post", id |-> r, header |-> h, payload |-> p]
  /\ UNCHANGED cvars
  /\ UNCHANGED <<registry, spc, stoken, closeCode, sent, lastOp>>

DispatchSentBroadcast(r) ==
  /\ dpc[r] = "sending"
  /\ spc[dws[r]] = "open"
  /\ sent' = [c \in Conns |->
                IF spc[c] = "open"
                THEN Append(sent[c], [req |-> r, duration |-> dreq[r].duration,
                                      side |-> dreq[r].side])
                ELSE sent[c]]
  /\ dpc' = [dpc EXCEPT ![r] = "done"]
  /\ dstatus' = [dstatus EXCEPT ![r] = 202]
  /\ UNCHANGED cvars
  /\ UNCHANGED <<registry, spc, stoken, closeCode, dreq, dws, lastOp, lastInput>>

\* send_text returned: 202 with the message
DispatchSent(r) ==
  /\ dpc[r] = "sending"
  /\ spc[dws[r]] = "open"
  /\ sent' = [sent EXCEPT ![dws[r]] =
                Append(@, [req |-> r, duration |-> dreq[r].duration, side |-> dreq[r].side])]
  /\ dpc' = [dpc EXCEPT ![r] = "done"]
  /\ dstatus' = [dstatus EXCEPT ![r] = 202]
  /\ UNCHANGED cvars
  /\ UNCHANGED <<registry, spc, stoken, closeCode, dreq, dws, lastOp, lastInput>>

\* send_text raised: drop the mapping if it still is this connection, then 404
DispatchSendFailed(r) ==
  /\ dpc[r] = "sending"
  /\ registry' = UnregisterMap(registry, dreq[r].token, dws[r])
  /\ lastOp' = [op |-> "unregister", token |-> dreq[r].token, conn |-> dws[r],
                by |-> "dispatch", before |-> registry]
  /\ dpc' = [dpc EXCEPT ![r] = "done"]
  /\ dstatus' = [dstatus EXCEPT ![r] = 404]
  /\ UNCHANGED cvars
  /\ UNCHANGED <<spc, stoken, closeCode, sent, dreq, dws, lastInput>>

Payloads ==
  {[duration |-> 0, side |-> "both"], [duration |-> 1, side |-> "left"],
   [duration |-> 60, side |-> "both"], [duration |-> 61, side |-> "right"],
   [duration |-> 5, side |-> "up"]}

NextServer ==
  \/ \E c \in Conns, h \in Headers : SessionHandshake(c, h)
  \/ \E c \in Conns : SessionAcceptFail(c)
  \/ \E c \in Conns : SessionRegister(c)
  \/ \E c \in Conns : SessionExit(c)
  \/ \E r \in Reqs, h \in Headers, p \in Payloads : DispatchStart(r, h, p)
  \/ \E r \in Reqs : DispatchSent(r)
  \/ \E r \in Reqs : DispatchSendFailed(r)

\* ----------------------------------------------------------- specifications

Init == InitClient /\ InitServer

\* the relay client
Spec == Init /\ [][NextClient]_vars

\* the relay client on the coarser clock
SpecSchedule == Init /\ [][NextSchedule]_vars

\* the relay client under the event loop's scheduling: a task or callback that
\* is ready is run, and while nothing is ready time passes; whether and when
\* messages arrive or the connection ends is left open
SpecLive ==
  /\ Init
  /\ [][NextClient]_vars
  /\ \A s \in Sides : WF_vars(WorkerOf(s))
  /\ WF_vars(Tick(Instants))

\* the relay client receiving bursts of whips
SpecBurst == Init /\ [][NextBurst]_vars

\* the broker
SpecServer == Init /\ [][NextServer]_vars

\* ------------------------------------------------------------ broker claims

\* C1: a cleanup made for a connection that is no longer the one stored under
\* its token (the older of two sessions of one token exits, or a dispatch's
\* send on it failed) leaves the whole registry as it was, so the lookup still
\* gives the newer connection; unregister changes the registry only when the
\* stored connection is the one it was called with, and then it removes
\* exactly that entry.
C1_StaleCleanupKeepsNewer ==
  lastOp.op = "unregister" =>
    /\ Lookup(lastOp.before, lastOp.token) # lastOp.conn => registry = lastOp.before
    /\ registry # lastOp.before =>
         /\ Lookup(lastOp.before, lastOp.token) = lastOp.conn
         /\ registry = [lastOp.before EXCEPT ![lastOp.token] = NoConn]

\* two sessions of one token, the older one looked up by a dispatch before the
\* newer registered; the dispatch's send fails and its cleanup keeps the newer
C1_Witness ==
  /\ lastOp.op = "unregister"
  /\ lastOp.by = "dispatch"
  /\ Lookup(lastOp.before, lastOp.token) \notin {NoConn, lastOp.conn}
  /\ stoken[lastOp.conn] = lastOp.token
  /\ stoken[Lookup(registry, lastOp.token)] = lastOp.token
  /\ Lookup(registry, lastOp.token) = Lookup(lastOp.before, lastOp.token)

\* C2 as stated: after register(t,c) the lookup of t gives c, and after
\* unregister(t,c) the lookup of t gives absent.
C2_Original ==
  /\ lastOp.op = "register" => Lookup(registry, lastOp.token) = lastOp.conn
  /\ lastOp.op = "unregister" => Lookup(registry, lastOp.token) = NoConn

\* C2 amended: after register(t,c) the lookup of t gives c; after
\* unregister(t,c) the lookup of t does not give c, and it gives absent when
\* the registry held c (or nothing) for t before the call.
C2_RegisterThenLookup ==
  /\ lastOp.op = "register" => Lookup(registry, lastOp.token) = lastOp.conn
  /\ lastOp.op = "unregister" =>
       /\ Lookup(registry, lastOp.token) # lastOp.conn
       /\ Lookup(lastOp.before, lastOp.token) \in {lastOp.conn, NoConn} =>
            Lookup(registry, lastOp.token) = NoConn

\* a connection registered over another one, and later its own unregister
\* emptied the entry
C2_Witness ==
  /\ lastOp.op = "unregister"
  /\ Lookup(lastOp.before, lastOp.token) = lastOp.conn
  /\ Lookup(registry, lastOp.token) = NoConn
  /\ \E c \in Conns : c # lastOp.conn /\ stoken[c] = lastOp.token /\ spc[c] = "closed"

\* an Authorization value that is absent or is not the word Bearer, in any
\* case, followed by one token
BadAuthorization(h) ==
  h = NoHeader \/ Len(h) # 2 \/ h[1] \notin {"Bearer", "bearer", "BEARER"}

\* a body whose duration is outside [1,60] or whose side is not a known one
BadPayload(p) ==
  p.duration < 1 \/ p.duration > 60 \/ p.side \notin {"left", "right", "both"}

\* C11: a POST /whip with an absent or malformed Authorization header ends
\* with 401; with a good header and a duration outside [1,60] or an unknown
\* side it ends with 422; with a good header and body and no registry entry
\* for its token it ends with 404; and the step that rejects it sends nothing
\* on any connection and leaves the registry as it was.
C11_InvalidDispatchRejected ==
  [][\A r \in Reqs : (dpc[r] = "new" /\ dpc'[r] # "new") =>
       LET h == lastInput'.header
           p == lastInput'.payload
       IN  /\ lastInput'.kind = "post" /\ lastInput'.id = r
           /\ BadAuthorization(h) => dstatus'[r] = 401
           /\ (~BadAuthorization(h) /\ BadPayload(p)) => dstatus'[r] = 422
           /\ (~BadAuthorization(h) /\ ~BadPayload(p) /\ registry[h[2]] = NoConn) =>
                dstatus'[r] = 404
           /\ (~BadAuthorization(h) /\ ~BadPayload(p) /\ registry[h[2]] # NoConn) =>
                dstatus'[r] = 0
           /\ dstatus'[r] # 0 =>
                /\ dpc'[r] = "done"
                /\ sent' = sent
                /\ registry' = registry
                /\ spc' = spc]_vars

\* a request with duration 61 for a token whose client is connected was
\* answered 422 and nothing was sent to the client
C11_Witness ==
  /\ lastInput.kind = "post"
  /\ ~BadAuthorization(lastInput.header)
  /\ lastInput.payload.duration = 61
  /\ dstatus[lastInput.id] = 422
  /\ Lookup(registry, lastInput.header[2]) # NoConn
  /\ spc[Lookup(registry, lastInput.header[2])] = "open"
  /\ \A c \in Conns : sent[c] = <<>>

\* C12: a dispatch for token t that looked up connection c and whose send
\* fails ends with 404, and after that step the registry does not map t to c;
\* an entry of t holding another connection, and the entries of all other
\* tokens, are as before, and nothing was sent.
C12_FailedSendUnregisters ==
  [][\A r \in Reqs : (dpc[r] = "sending" /\ dpc'[r] # "sending") =>
       /\ dpc'[r] = "done"
       /\ dstatus'[r] \in {202, 404}
       /\ dstatus'[r] = 404 =>
            /\ Lookup(registry', dreq[r].token) # dws[r]
            /\ Lookup(registry, dreq[r].token) # dws[r] => registry' = registry
            /\ \A u \in Tokens \ {dreq[r].token} : registry'[u] = registry[u]
            /\ sent' = sent]_vars

\* the send to the connection stored for one token failed: its entry is gone
\* and the entry of the other token, whose client is connected, is kept
C12_Witness ==
  /\ lastOp.op = "unregister"
  /\ lastOp.by = "dispatch"
  /\ Lookup(lastOp.before, lastOp.token) = lastOp.conn
  /\ Lookup(registry, lastOp.token) = NoConn
  /\ \E r \in Reqs : dstatus[r] = 404 /\ dws[r] = lastOp.conn /\ dreq[r].token = lastOp.token
  /\ \E u \in Tokens \ {lastOp.token} :
       Lookup(registry, u) # NoConn /\ Lookup(registry, u) = Lookup(lastOp.before, u)

\* the places, connection and position, of the messages request r has sent
MessagesOf(r) ==
  {<<c, i>> \in Conns \X (1..NumReqs) : i <= Len(sent[c]) /\ sent[c][i].req = r}

\* C13: every message on a connection comes from a dispatch that returned
\* 202, carries that request's duration and side, and is on a connection that
\* completed its handshake with the token the request presented; a dispatch
\* that returned 202 has exactly one message, on one connection; the token,
\* duration and side a dispatch works with are those it received; and the
\* step that returns 202 leaves the registry as it was.
C13_SuccessSendsOneMessage ==
  /\ [](/\ \A c \in Conns : \A i \in 1..Len(sent[c]) :
             /\ dstatus[sent[c][i].req] = 202
             /\ sent[c][i].duration = dreq[sent[c][i].req].duration
             /\ sent[c][i].side = dreq[sent[c][i].req].side
             /\ spc[c] \in {"open", "closed"}
             /\ stoken[c] = dreq[sent[c][i].req].token
         /\ \A r \in Reqs : dstatus[r] = 202 => Cardinality(MessagesOf(r)) = 1)
  /\ [][\A r \in Reqs :
          /\ (dpc[r] = "new" /\ dpc'[r] = "sending") =>
               /\ dreq'[r].token = lastInput'.header[2]
               /\ dreq'[r].duration = lastInput'.payload.duration
               /\ dreq'[r].side = lastInput'.payload.side
          /\ (dstatus[r] = 0 /\ dstatus'[r] = 202) => registry' = registry]_vars

\* two clients with different tokens are connected; a dispatch for one of
\* them returned 202, its message is on that client's connection and the
\* other client has received nothing
C13_Witness ==
  \E r \in Reqs, c \in Conns, d \in Conns :
    /\ dstatus[r] = 202
    /\ MessagesOf(r) = {<<c, 1>>}
    /\ lastInput.kind = "post" /\ lastInput.id = r
    /\ sent[c][1].duration = lastInput.payload.duration
    /\ sent[c][1].side = lastInput.payload.side
    /\ stoken[c] = lastInput.header[2]
    /\ spc[d] = "open" /\ stoken[d] # stoken[c] /\ sent[d] = <<>>

\* C14: the registry holds, under a token, only a connection whose session
\* authenticated with that token and has not finished; a handshake with an
\* absent or malformed Authorization value is closed with status 1008 and its
\* connection is never in the registry, a well-formed one goes on to accept
\* with its token; and once a session handler has exited the registry does not
\* hold its connection.
C14_RegistryHoldsOpenSessions ==
  /\ [](/\ \A t \in Tokens : Lookup(registry, t) # NoConn =>
             /\ spc[Lookup(registry, t)] = "open"
             /\ stoken[Lookup(registry, t)] = t
         /\ \A c \in Conns :
             /\ spc[c] = "rejected" => closeCode[c] = 1008
             /\ spc[c] \in {"rejected", "closed"} =>
                  \A u \in Tokens : Lookup(registry, u) # c)
  /\ [][\A c \in Conns :
          /\ (spc[c] = "new" /\ spc'[c] # "new") =>
               /\ lastInput'.kind = "ws" /\ lastInput'.id = c
               /\ registry' = registry
               /\ IF BadAuthorization(lastInput'.header)
                  THEN spc'[c] = "rejected" /\ closeCode'[c] = 1008
                  ELSE /\ spc'[c] = "accepting"
                       /\ closeCode'[c] = 0
                       /\ stoken'[c] = lastInput'.header[2]
          /\ spc[c] \in {"rejected", "closed"} => spc'[c] = spc[c]]_vars

\* one connection came with a Basic header and was closed with 1008; another
\* one registered, and its handler has exited and removed its entry
C14_Witness ==
  \E c \in Conns :
    /\ spc[c] = "rejected"
    /\ closeCode[c] = 1008
    /\ lastInput.kind = "ws" /\ lastInput.id = c /\ lastInput.header = <<"Basic", "t1">>
    /\ lastOp.op = "unregister" /\ lastOp.by = "session"
    /\ spc[lastOp.conn] = "closed"
    /\ Lookup(lastOp.before, lastOp.token) = lastOp.conn
    /\ Lookup(registry, lastOp.token) = NoConn

\* C19: the step that registers a connection under its token changes the
\* registry entry of that token to the new connection and nothing else: the
\* other entries, every other connection's session and close status, and the
\* messages are as before; a connection that the entry held before is not
\* closed and its session is still in its receive loop.
C19_ReRegisterOnlyReplaces ==
  [][\A c \in Conns : (spc[c] = "accepting" /\ spc'[c] = "open") =>
       /\ registry' = [registry EXCEPT ![stoken[c]] = c]
       /\ \A b \in Conns \ {c} : spc'[b] = spc[b] /\ closeCode'[b] = closeCode[b]
       /\ closeCode'[c] = 0
       /\ sent' = sent
       /\ Lookup(registry, stoken[c]) \notin {NoConn, c} =>
            /\ spc'[Lookup(registry, stoken[c])] = "open"
            /\ closeCode'[Lookup(registry, stoken[c])] = 0]_vars

\* a second connection has just registered under the token of a connected
\* client: the entry holds the second, the first is open and not closed
C19_Witness ==
  /\ lastOp.op = "register"
  /\ Lookup(lastOp.before, lastOp.token) \notin {NoConn, lastOp.conn}
  /\ Lookup(registry, lastOp.token) = lastOp.conn
  /\ spc[lastOp.conn] = "open"
  /\ spc[Lookup(lastOp.before, lastOp.token)] = "open"
  /\ closeCode[Lookup(lastOp.before, lastOp.token)] = 0
  /\ stoken[Lookup(lastOp.before, lastOp.token)] = lastOp.token

\* a session that has registered and is in its receive loop, on a connection
\* no send has failed on
Live(c) ==
  /\ spc[c] = "open"
  /\ ~\E r \in Reqs : dpc[r] = "done" /\ dstatus[r] = 404 /\ dws[r] = c

\* C20: whenever some session of token t has registered and has not
\* disconnected, the registry has an entry for t and the entry is the
\* connection of a session of t that is still in its receive loop.
C20_LookupFindsOpenSession ==
  \A t \in Tokens :
    (\E c \in Conns : Live(c) /\ stoken[c] = t) =>
      /\ Lookup(registry, t) # NoConn
      /\ spc[Lookup(registry, t)] = "open"
      /\ stoken[Lookup(registry, t)] = t

\* ------------------------------------------------------------ client claims

Max(a, b) == IF a >= b THEN a ELSE b

\* run is still receiving and the worker of side s is blocked with neither a
\* wake-up nor a timeout pending
Settled(s) == runPc = "recv" /\ ~Runnable(s)

\* C3: every extend(duration), called at time now on a side with deadline
\* expiry, sets and returns max(expiry, now) + max(0, duration), whatever the
\* side's worker is doing; extend(10) at t0 on an idle side followed by
\* extend(5) at t0+3 returns t0+15, and followed instead by extend(5) at
\* t0+100 returns t0+105.
C3_ExtendLaw ==
  /\ \A i \in 1..Len(log) : \A s \in SidesHit(log[i].side) :
       log[i].ret[s] = Max(log[i].old[s], log[i].at) + Max(0, log[i].secs)
  /\ Len(log) > 0 => \A s \in SidesHit(log[Len(log)].side) :
       event[s] => expiry[s] = log[Len(log)].ret[s]
  /\ \A s \in Sides : \A i \in 1..(Len(ExtendsOn(s)) - 1) :
       LET first == ExtendsOn(s)[i]
           second == ExtendsOn(s)[i + 1]
       IN  (first.secs = 10 /\ ~first.on[s] /\ first.old[s] <= first.at /\ second.secs = 5) =>
             /\ second.at = first.at + 3 => second.ret[s] = first.at + 15
             /\ second.at = first.at + 100 => second.ret[s] = first.at + 105

\* extend(10) at t0 on an idle side, its deadline elapsed, then extend(5) at
\* t0+100 returned t0+105
C3_Witness ==
  \E s \in Sides :
    /\ Len(ExtendsOn(s)) = 2
    /\ ExtendsOn(s)[1].secs = 10
    /\ ~ExtendsOn(s)[1].on[s]
    /\ ExtendsOn(s)[2].secs = 5
    /\ ExtendsOn(s)[2].at = ExtendsOn(s)[1].at + 100
    /\ ExtendsOn(s)[2].ret[s] = ExtendsOn(s)[1].at + 105
    /\ expiry[s] = ExtendsOn(s)[1].at + 105
    /\ relay[s]

\* C4 as stated: in every state, each side's driver is ON exactly when
\* now < expiry.
C4_Original == \A s \in Sides : relay[s] <=> now < expiry[s]

\* C4 amended: while run is receiving, whenever a side's worker is blocked
\* with no wake-up and no timeout pending, the side's driver is ON exactly
\* when now < expiry.
C4_DriverOnIffBeforeExpiry ==
  \A s \in Sides : Settled(s) => (relay[s] <=> now < expiry[s])

\* a side that was extended twice is in its active wait, time has passed
\* since the last extend and the driver is ON before the deadline
C4_Witness ==
  \E s \in Sides :
    /\ Settled(s)
    /\ wpc[s] = "active"
    /\ Len(ExtendsOn(s)) = 2
    /\ now > ExtendsOn(s)[2].at
    /\ relay[s]
    /\ now < expiry[s]

\* C5: no step lowers a side's expiry.
C5_ExpiryNeverDecreases == [][\A s \in Sides : expiry'[s] >= expiry[s]]_vars

\* C6: the worker never switches a driver OFF, and expiry is never below a
\* deadline extend has returned, before that deadline.
C6_NoOffBeforeReturnedDeadline ==
  \A s \in Sides :
    /\ ~offEarly[s]
    /\ now < Promised(s) => expiry[s] >= Promised(s)

\* an extend on side s that arrived while the driver was ON and the deadline
\* had already elapsed
ArrivedAfterExpiry(s) ==
  \E i \in 1..Len(log) :
    s \in SidesHit(log[i].side) /\ log[i].on[s] /\ log[i].old[s] <= log[i].at

\* C7: when every extend on a side arrives either while its driver is OFF or
\* before the current expiry has elapsed, the worker never switches the driver
\* OFF before the last deadline extend returned; and whenever the worker is in
\* its timed wait with nothing pending, the wait ends at the current expiry.
C7_NoFlickerWhenExtendedInTime ==
  \A s \in Sides :
    /\ offEarly[s] => ArrivedAfterExpiry(s)
    /\ (wpc[s] = "active" /\ outcome[s] = "none") => deadline[s] = expiry[s]

\* the second extend arrived during the active window, the window has run to
\* the extended deadline and the driver went OFF only then
C7_Witness ==
  \E s \in Sides :
    /\ Len(ExtendsOn(s)) = 2
    /\ ExtendsOn(s)[2].on[s]
    /\ ExtendsOn(s)[2].old[s] > ExtendsOn(s)[2].at
    /\ ExtendsOn(s)[2].at > ExtendsOn(s)[1].at
    /\ ExtendsOn(s)[2].secs > 0
    /\ now = Promised(s)
    /\ wpc[s] = "idle"
    /\ ~relay[s]
    /\ ~offEarly[s]

\* exactly two extends on the right side, 5 seconds each, 3 seconds apart
TwoWhipsRight ==
  /\ Len(ExtendsOn("right")) = 2
  /\ ExtendsOn("right")[1].secs = 5
  /\ ExtendsOn("right")[2].secs = 5
  /\ ExtendsOn("right")[2].at = ExtendsOn("right")[1].at + 3

\* C8 as stated: after two whips of 5 seconds for the right side, 3 seconds
\* apart, the right driver is ON until 8 seconds after the first and OFF from
\* then on, never switched OFF in between.
C8_Original ==
  (TwoWhipsRight /\ Settled("right")) =>
    /\ relay["right"] <=> now < ExtendsOn("right")[1].at + 8
    /\ ~offEarly["right"]

\* C8 amended: the second extend returns the first deadline plus 5, and the
\* right driver is ON until 10 seconds after the first whip and OFF from then
\* on, never switched OFF in between.
C8_TwoWhipsAccumulate ==
  TwoWhipsRight =>
    /\ ExtendsOn("right")[2].ret["right"] = ExtendsOn("right")[1].ret["right"] + 5
    /\ ~offEarly["right"]
    /\ Settled("right") => (relay["right"] <=> now < ExtendsOn("right")[1].at + 10)

\* the two whips were applied, the driver was ON 8 seconds after the first
\* and is OFF 10 seconds after it
C8_Witness ==
  /\ TwoWhipsRight
  /\ Settled("right")
  /\ now = ExtendsOn("right")[1].at + 10
  /\ ~relay["right"]
  /\ ~offEarly["right"]

\* C9: after a single extend(10) at t0 on an idle side, and while no other
\* extend has been made on it, expiry is t0+10 until then, and the driver is
\* ON at every time from t0 up to t0+10 and OFF from t0+10 on.
C9_SingleExtend ==
  \A s \in Sides :
    (Len(ExtendsOn(s)) = 1 /\ ExtendsOn(s)[1].secs = 10 /\ ~ExtendsOn(s)[1].on[s]) =>
      /\ ExtendsOn(s)[1].ret[s] = ExtendsOn(s)[1].at + 10
      /\ now < ExtendsOn(s)[1].at + 10 => expiry[s] = ExtendsOn(s)[1].at + 10
      /\ Settled(s) => (relay[s] <=> now < ExtendsOn(s)[1].at + 10)
      /\ ~offEarly[s]

\* the single extend(10) has run its course: the driver is OFF at t0+10
C9_Witness ==
  \E s \in Sides :
    /\ Len(ExtendsOn(s)) = 1
    /\ ExtendsOn(s)[1].secs = 10
    /\ ~ExtendsOn(s)[1].on[s]
    /\ Settled(s)
    /\ now = ExtendsOn(s)[1].at + 10
    /\ ~relay[s]

\* C10: once run's finally block has commanded the drivers OFF no driver is ON
\* again, and Relay.cleanup() runs with every worker cancelled and every
\* driver OFF.
C10_ShutdownLeavesDriversOff ==
  /\ runPc \in {"gather", "done"} => \A s \in Sides : ~relay[s]
  /\ runPc = "done" => \A s \in Sides : wpc[s] = "cancelled" /\ ~relay[s]

\* C15: a received whip for side left sets the left expiry to
\* max(left expiry, now) + max(0, duration) and leaves the right side's
\* expiry, wake signal, worker and driver as they were, and symmetrically for
\* right; a whip for both sets each side's expiry from that side's own
\* expiry with the same duration; receiving a whip switches no driver.
C15_WhipTouchesNamedSides ==
  [][Len(log') > Len(log) =>
       LET e == log'[Len(log')]
       IN  /\ e.side \in {"left", "right", "both"}
           /\ \A s \in Sides :
                IF e.side \in {s, "both"}
                THEN /\ expiry'[s] = Max(expiry[s], now) + Max(0, e.secs)
                     /\ event'[s]
                ELSE /\ expiry'[s] = expiry[s]
                     /\ event'[s] = event[s]
                     /\ outcome'[s] = outcome[s]
           /\ relay' = relay
           /\ wpc' = wpc
           /\ deadline' = deadline]_vars

\* the right side is in its active window, a whip for the left side has just
\* been received: the left expiry is extended, the right side is as it was
C15_Witness ==
  /\ Len(log) = 2
  /\ log[1].side = "right"
  /\ log[2].side = "left"
  /\ log[2].at > log[1].at
  /\ event["left"]
  /\ expiry["left"] = log[2].at + log[2].secs
  /\ wpc["right"] = "active"
  /\ relay["right"]
  /\ ~event["right"]
  /\ expiry["right"] = log[1].ret["right"]
  /\ expiry["right"] # expiry["left"]

\* C16: every read and every write of a side's expiry, by extend and by the
\* side's worker, is made while the side's lock is held.
C16_ExpiryAccessedUnderLock == \A s \in Sides : ~bare[s]

\* C17: extends on one side are applied one after another with no lost
\* update: of two successive extends on a side, the second arriving before the
\* deadline the first returned, the second starts from the expiry the first
\* committed and returns that deadline plus its own duration.
C17_ExtendsLinearized ==
  \A s \in Sides : \A i \in 1..(Len(ExtendsOn(s)) - 1) :
    LET first == ExtendsOn(s)[i]
        second == ExtendsOn(s)[i + 1]
    IN  second.at < first.ret[s] =>
          /\ second.old[s] = first.ret[s]
          /\ second.ret[s] = first.ret[s] + second.secs

\* C18: while run keeps receiving, a wake signal set by an extend that left
\* the side's expiry in the future is followed by the worker having taken it:
\* the signal cleared, the worker in its timed wait and the driver ON; and a
\* driver that is ON is followed by the driver OFF with the worker blocked
\* on the wake signal again, once no further extend keeps it ON.
C18_NoLostWakeup ==
  \A s \in Sides :
    /\ (runPc = "recv" /\ event[s] /\ expiry[s] > now)
          ~> ((wpc[s] = "active" /\ relay[s] /\ ~event[s]) \/ runPc # "recv")
    /\ (runPc = "recv" /\ relay[s])
          ~> ((wpc[s] = "idle" /\ ~relay[s] /\ ~event[s]) \/ runPc # "recv")

====
